---- MODULE Spec2Model ----
(***************************************************************************)
(* A model of src/src/lib.rs: the GapBuffer of gap-buffer-rs.              *)
(*                                                                         *)
(* The buffer is four raw pointers (buf_start, gap_start, gap_end,         *)
(* buf_end) into one libc allocation.  Pointers are modelled as integer    *)
(* addresses; the heap holds the one block the buffer owns (its address    *)
(* and its bytes) and remembers the block that realloc released last, so   *)
(* that an access through a stale pointer can be told apart from an access *)
(* to the live block.                                                      *)
(*                                                                         *)
(* Every method is an operator from a machine record (the struct's fields  *)
(* plus the heap) to a machine record, translated statement by statement;  *)
(* the actions apply these operators to the current state.                 *)
(***************************************************************************)
EXTENDS Integers, Sequences, FiniteSets, TLC

\* ------------------------------------------------------------------ bounds

\* with_capacity is called with a capacity in 0..MaxCap.
MaxCap == 3
\* Payloads passed to insert_str have a length in 0..MaxLen.
MaxLen == 2
\* Number of insert_str / remove calls explored on one buffer.
MaxOps == 3

\* GrowSpec draws shortfalls up to MaxDelta above each of ShortfallBases.
MaxDelta == 34

\* --------------------------------------------------------------- constants

\* const CHUNK_SIZE: isize = 32;
CHUNK_SIZE == 32

\* The null pointer (malloc(0) and a failed realloc may return it).
NULL == 0

\* Addresses at which malloc / realloc may place a block.  A relocating
\* realloc returns the address the block is not at.
Arena == {100, 200}

\* One payload per length; bytes differ between payloads and within one.
Payload(n) == [i \in 1..n |-> 10 * n + i]
Payloads == {Payload(n) : n \in 0..MaxLen}

\* Values an uninitialised byte (fresh from malloc / realloc) may hold.  One
\* value is drawn per allocation; 11 is also the byte of Payload(1).
Junk == {0, 11}

\* What realloc can do: fail (NULL), extend the block where it is, or
\* allocate elsewhere, copy, and release the old block.
ReallocOutcomes == {"fail", "inplace", "moved"}

\* ------------------------------------------------------------ memory model

\* fn ptr_diff(p, q) -> isize
ptr_diff(p, q) == p - q

\* Size of the live allocation.
BlockSize(M) == Len(M.mem)

\* Address a is a byte of the live allocation.
InBlock(M, a) == M.alloc = "live" /\ a >= M.base /\ a < M.base + BlockSize(M)

\* Address a is a byte of the block realloc released last.
InOld(M, a) == M.old_size > 0 /\ a >= M.old_base /\ a < M.old_base + M.old_size

\* The byte at address a (0 where a is no byte of the live allocation).
Peek(M, a) == IF InBlock(M, a) THEN M.mem[a - M.base + 1] ELSE 0

\* Record an access to the n bytes at p: an access outside the live
\* allocation is undefined behaviour.  It is flagged (uaf: through a pointer
\* into a released block; oob: elsewhere), and the process either carries on
\* or, when segv is chosen, dies of a memory fault.
Touch(M, p, n, segv) ==
    LET range == p .. (p + n - 1)
        stray == {a \in range : ~InBlock(M, a)}
        stale == {a \in stray : InOld(M, a)}
    IN  IF stray = {} THEN M
        ELSE [M EXCEPT !.uaf = @ \/ (stale # {}),
                       !.oob = @ \/ (stray # stale),
                       !.status = IF segv THEN "fault" ELSE @]

\* The sequence m with bytes stored from index k + 1 on.
Splice(m, k, bytes) ==
    SubSeq(m, 1, k) \o bytes \o SubSeq(m, k + Len(bytes) + 1, Len(m))

\* The n addresses from p on are all bytes of the live allocation.
AllInBlock(M, p, n) == InBlock(M, p) /\ InBlock(M, p + n - 1)

\* One statement after another: the call goes on with F on the machine X
\* unless a panic or a memory fault has ended it there.
Step(X, F(_)) == IF X.status # "live" THEN X ELSE F(X)

\* libc::memcpy(dst, bytes, n): the bytes that fall inside the live
\* allocation are stored; the others land outside it.
memcpy(M, dst, bytes, segv) ==
    LET n == Len(bytes)
        store(T) ==
            IF AllInBlock(M, dst, n)
            THEN [T EXCEPT !.mem = Splice(M.mem, dst - M.base, bytes)]
            ELSE [T EXCEPT !.mem = [i \in 1..Len(M.mem) |->
                    LET a == M.base + i - 1
                    IN  IF a >= dst /\ a < dst + n THEN bytes[a - dst + 1]
                        ELSE M.mem[i]]]
    IN  IF n = 0 THEN M ELSE Step(Touch(M, dst, n, segv), store)

\* libc::memmove(dst, src, n): overlap-safe, so every destination byte gets
\* the value the source byte had before the call.  A destination byte whose
\* source lies outside the live allocation keeps its value (in this program
\* that only happens with src = dst or with both ranges in a released block).
memmove(M, dst, src, n, segv) ==
    LET store(T) ==
            IF AllInBlock(M, dst, n) /\ AllInBlock(M, src, n)
            THEN [T EXCEPT !.mem =
                    Splice(M.mem, dst - M.base,
                           SubSeq(M.mem, src - M.base + 1, src - M.base + n))]
            ELSE [T EXCEPT !.mem = [i \in 1..Len(M.mem) |->
                    LET a == M.base + i - 1
                        s == a - dst + src
                    IN  IF a >= dst /\ a < dst + n /\ InBlock(M, s)
                        THEN Peek(M, s) ELSE M.mem[i]]]
    IN  IF n <= 0 THEN M
        ELSE Step(Touch(Touch(M, src, n, segv), dst, n, segv), store)

\* n fresh bytes holding j.
Fresh(n, j) == [i \in 1..n |-> j]

\* -------------------------------------------------------------- GapBuffer

\* pub fn with_capacity(capacity) -> GapBuffer, for a malloc that returned
\* p (NULL is accepted for capacity 0) with uninitialised bytes j.
with_capacity(capacity, p, j) ==
    [ buf_start |-> p,
      gap_start |-> p,
      gap_end   |-> p + capacity,
      buf_end   |-> p + capacity,
      base      |-> p,
      mem       |-> Fresh(capacity, j),
      alloc     |-> IF p = NULL THEN "none" ELSE "live",
      old_base  |-> NULL,
      old_size  |-> 0,
      reallocs  |-> 0,
      frees     |-> 0,
      badfree   |-> FALSE,
      uaf       |-> FALSE,
      oob       |-> FALSE,
      status    |-> "live" ]

\* fn gap_len(&self) -> isize
gap_len(M) == ptr_diff(M.gap_end, M.gap_start)

\* fn buf_len(&self) -> isize
buf_len(M) ==
    LET head_len == ptr_diff(M.gap_start, M.buf_start)
        tail_len == ptr_diff(M.buf_end, M.gap_end)
    IN  head_len + tail_len

\* fn string_from_segment(start, len) -> String: a copy of len bytes.
string_from_segment(M, start, len) ==
    IF len <= 0 THEN <<>>
    ELSE IF AllInBlock(M, start, len)
    THEN SubSeq(M.mem, start - M.base + 1, start - M.base + len)
    ELSE [i \in 1..len |-> Peek(M, start + i - 1)]

\* fn head(&self) -> String
head(M) ==
    LET head_len == ptr_diff(M.gap_start, M.buf_start)
    IN  string_from_segment(M, M.buf_start, head_len)

\* fn tail(&self) -> String
tail(M) ==
    LET tail_len == ptr_diff(M.buf_end, M.gap_end)
    IN  string_from_segment(M, M.gap_end, tail_len)

\* impl fmt::Display: write!(f, "{}{}", self.head(), self.tail())
to_string(M) == head(M) \o tail(M)

\* clear that resets gap_start only.
clear_keeps_gap_end(M) == [M EXCEPT !.gap_start = M.buf_start]

\* fn clear(&mut self)
clear(M) == [M EXCEPT !.gap_start = M.buf_start, !.gap_end = M.buf_end]

\* The other address of the arena: where a relocating realloc puts the block.
Elsewhere(p) == CHOOSE q \in Arena : q # p

\* libc::realloc(ptr, new_size) with outcome res; the result is the machine
\* with the heap updated and the returned pointer in field ret.
realloc(M, ptr, new_size, res, j) ==
    LET grown == M.mem \o Fresh(new_size - Len(M.mem), j)
        R == [M EXCEPT !.reallocs = @ + 1]
    IN  IF res = "fail" THEN [m |-> R, ret |-> NULL]
        ELSE IF res = "inplace" /\ ptr # NULL
        THEN [m |-> [R EXCEPT !.mem = grown], ret |-> ptr]
        ELSE \* a new block; the old one (if any) is released by realloc
             LET q == Elsewhere(ptr)
             IN  [m |-> [R EXCEPT !.mem = grown, !.base = q, !.alloc = "live",
                                  !.old_base = ptr,
                                  !.old_size = IF ptr = NULL THEN 0 ELSE Len(M.mem)],
                  ret |-> q]

\* allocate_extra that stores realloc's result before checking it.
allocate_extra_assign_first(M, extra, res, j) ==
    LET current_size == ptr_diff(M.buf_end, M.buf_start)
        new_size == extra + current_size
        r == realloc(M, M.buf_start, new_size, res, j)
        A == [r.m EXCEPT !.buf_start = r.ret]
    IN  IF r.ret = NULL THEN [A EXCEPT !.status = "panicked"] ELSE A

\* fn allocate_extra(&mut self, extra)
allocate_extra(M, extra, res, j) ==
    LET current_size == ptr_diff(M.buf_end, M.buf_start)
        new_size == extra + current_size
        r == realloc(M, M.buf_start, new_size, res, j)
    IN  IF r.ret = NULL
        THEN [r.m EXCEPT !.status = "panicked"]      \* assert!(!new_buf.is_null())
        ELSE [r.m EXCEPT !.buf_start = r.ret]

\* The least power of two u with n < 2^24 * u: the spacing of the f32 values
\* around n (an f32 has a 24-bit significand).
RECURSIVE f32_ulp(_)
f32_ulp(n) == IF n < 16777216 THEN 1 ELSE 2 * f32_ulp(n \div 2)

\* n as f32, for n >= 0: the nearest f32 value, ties to the even significand.
as_f32(n) ==
    LET u == f32_ulp(n)
        q == n \div u
        r == n % u
    IN  IF 2 * r < u THEN q * u
        ELSE IF 2 * r > u THEN (q + 1) * u
        ELSE (IF q % 2 = 0 THEN q ELSE q + 1) * u

\* (needed as f32 / CHUNK_SIZE as f32).ceil() as isize, for needed >= 0.  The
\* division by 32 and ceil are exact in f32; the conversion of needed is not.
chunks(needed) == (as_f32(needed) + CHUNK_SIZE - 1) \div CHUNK_SIZE

\* The sizes grow_gap computes before it reallocates (lib.rs:118-127).
grow_sizes(M, size) ==
    LET available == gap_len(M)
        needed == size - available
        chunk == chunks(needed) * CHUNK_SIZE
        head_len == ptr_diff(M.gap_start, M.buf_start)
        tail_len == ptr_diff(M.buf_end, M.gap_end)
        new_gap_size == gap_len(M) + chunk
    IN  [ chunk |-> chunk, tail_len |-> tail_len,
          new_gap_size |-> new_gap_size, buf_len |-> head_len + tail_len ]

\* grow_gap whose new gap is the added chunk alone: the bytes of the old gap
\* are left out of new_gap_size.
grow_gap_chunk_only(M, size, res, j, segv) ==
    LET grow(L) ==
            LET move_tail(A) ==
                    memmove(A, A.gap_start, A.gap_end, L.tail_len, segv)
                place(B) ==
                    [B EXCEPT !.gap_start = B.buf_start + L.buf_len,
                              !.gap_end = B.buf_start + L.buf_len + L.chunk,
                              !.buf_end = B.buf_start + L.buf_len + L.chunk]
            IN  Step(Step(allocate_extra(M, L.chunk, res, j), move_tail), place)
    IN  grow(grow_sizes(M, size))

\* fn grow_gap(&mut self, size)
grow_gap(M, size, res, j, segv) ==
    LET grow(L) ==
            LET \* gap_start and gap_end still hold the addresses they had
                \* before the reallocation
                move_tail(A) ==
                    memmove(A, A.gap_start, A.gap_end, L.tail_len, segv)
                place(B) ==
                    [B EXCEPT !.gap_start = B.buf_start + L.buf_len,
                              !.gap_end = B.buf_start + L.buf_len + L.new_gap_size,
                              !.buf_end = B.buf_start + L.buf_len + L.new_gap_size]
            IN  Step(Step(allocate_extra(M, L.chunk, res, j), move_tail), place)
    IN  grow(grow_sizes(M, size))

\* move_gap_to whose left branch leaves gap_end where it was.
move_gap_to_keeps_gap_end(M, offset, segv) ==
    LET new_pos == M.buf_start + offset
        diff == ptr_diff(new_pos, M.gap_start)
    IN  IF diff = 0 THEN M
        ELSE IF diff < 0
        THEN LET A == [M EXCEPT !.gap_start = new_pos]
             IN  memmove(A, A.gap_end, A.gap_start, -diff, segv)
        ELSE LET A == [M EXCEPT !.gap_end = M.gap_end + diff,
                                !.gap_start = M.gap_start + diff]
             IN  memmove(A, new_pos, A.gap_start, diff, segv)

\* fn move_gap_to(&mut self, offset)
move_gap_to(M, offset, segv) ==
    LET glen == gap_len(M)
        new_pos == M.buf_start + offset
        diff == ptr_diff(new_pos, M.gap_start)
    IN  IF diff = 0 THEN M
        ELSE IF diff < 0
        THEN LET A == [M EXCEPT !.gap_start = new_pos, !.gap_end = new_pos + glen]
             IN  memmove(A, A.gap_end, A.gap_start, -diff, segv)
        ELSE LET A == [M EXCEPT !.gap_end = M.gap_end + diff,
                                !.gap_start = M.gap_start + diff]
             IN  memmove(A, new_pos, A.gap_start, diff, segv)

\* insert_str that also grows the gap when the data fills it exactly.
insert_str_grows_when_full(M, offset, s, res, j, segv) ==
    LET s_len == Len(s)
        grow(X) == IF s_len >= gap_len(X) THEN grow_gap(X, s_len, res, j, segv)
                   ELSE X
        move(G) == move_gap_to(G, offset, segv)
        copy(V) == memcpy(V, V.gap_start, s, segv)
        advance(W) == [W EXCEPT !.gap_start = W.gap_start + s_len]
    IN  Step(Step(Step(grow(M), move), copy), advance)

\* pub fn insert_str(&mut self, offset, s)
insert_str(M, offset, s, res, j, segv) ==
    LET s_len == Len(s)
        grow(X) == IF s_len > gap_len(X) THEN grow_gap(X, s_len, res, j, segv)
                   ELSE X
        move(G) == move_gap_to(G, offset, segv)
        copy(V) == memcpy(V, V.gap_start, s, segv)
        advance(W) == [W EXCEPT !.gap_start = W.gap_start + s_len]
    IN  Step(Step(Step(grow(M), move), copy), advance)

\* remove's assertions without the one that rejects start >= end.
RemovePrecondition_allows_empty(M, start, end) ==
    /\ start < buf_len(M)
    /\ end <= buf_len(M)

\* The three assertions that open remove.
RemovePrecondition(M, start, end) ==
    /\ start < end
    /\ start < buf_len(M)
    /\ end <= buf_len(M)

\* remove that does not clear the buffer before it re-inserts the two parts.
remove_without_clear(M, start, end, res, j, segv) ==
    LET reinsert(hd, tl) ==
            LET second(I) == insert_str(I, Len(hd), tl, res, j, segv)
            IN  Step(insert_str(M, 0, hd, res, j, segv), second)
        split(s) == reinsert(SubSeq(s, 1, start), SubSeq(s, end + 1, Len(s)))
    IN  IF ~RemovePrecondition(M, start, end)
        THEN [M EXCEPT !.status = "panicked"]
        ELSE split(to_string(M))

\* pub fn remove(&mut self, range)
remove(M, start, end, res, j, segv) ==
    LET reinsert(hd, tl) ==
            LET second(I) == insert_str(I, Len(hd), tl, res, j, segv)
            IN  Step(insert_str(clear(M), 0, hd, res, j, segv), second)
        split(s) == reinsert(SubSeq(s, 1, start), SubSeq(s, end + 1, Len(s)))
    IN  IF ~RemovePrecondition(M, start, end)
        THEN [M EXCEPT !.status = "panicked"]
        ELSE split(to_string(M))

\* impl Drop: libc::free(self.buf_start)
drop(M) ==
    LET F == IF M.buf_start = NULL THEN M
             ELSE IF M.alloc = "live" /\ M.buf_start = M.base
             THEN [M EXCEPT !.alloc = "released", !.frees = @ + 1,
                            !.old_base = M.base, !.old_size = Len(M.mem)]
             ELSE [M EXCEPT !.badfree = TRUE]
    IN  [F EXCEPT !.status = "dropped"]

\* ------------------------------------------------------------ state machine

VARIABLES
    buf_start, gap_start, gap_end, buf_end,   \* the struct's four pointers
    base, mem, alloc,                         \* the allocation the buffer owns
    old_base, old_size,                       \* the block released last
    reallocs, frees, badfree,                 \* calls of realloc / free
    uaf, oob,                                 \* undefined accesses so far
    status,                                   \* live, panicked, fault, dropped
    ref,                                      \* the same edits on a plain sequence
    call, prior,                              \* the last call and the one before:
                                              \* its arguments, the machine before
                                              \* it, and how it ended
    ops                                       \* number of calls so far

fields == <<buf_start, gap_start, gap_end, buf_end, base, mem, alloc, old_base,
            old_size, reallocs, frees, badfree, uaf, oob, status>>
vars == <<fields, ref, call, prior, ops>>

\* The current machine as a record.
Cur ==
    [ buf_start |-> buf_start, gap_start |-> gap_start, gap_end |-> gap_end,
      buf_end |-> buf_end, base |-> base, mem |-> mem, alloc |-> alloc,
      old_base |-> old_base, old_size |-> old_size, reallocs |-> reallocs,
      frees |-> frees, badfree |-> badfree, uaf |-> uaf, oob |-> oob,
      status |-> status ]

\* The machine M becomes the next state.
Commit(M) ==
    /\ buf_start' = M.buf_start /\ gap_start' = M.gap_start
    /\ gap_end' = M.gap_end /\ buf_end' = M.buf_end
    /\ base' = M.base /\ mem' = M.mem /\ alloc' = M.alloc
    /\ old_base' = M.old_base /\ old_size' = M.old_size
    /\ reallocs' = M.reallocs /\ frees' = M.frees /\ badfree' = M.badfree
    /\ uaf' = M.uaf /\ oob' = M.oob /\ status' = M.status

\* insert_str's contract: 0 <= offset <= current length.
InRange(M, offset) == offset >= 0 /\ offset <= buf_len(M)

\* remove's contract on a content of length len.
ValidRange(len, start, end) == start < end /\ start < len /\ end <= len

\* The edits on the reference sequence.
RefInsert(r, offset, s) == SubSeq(r, 1, offset) \o s \o SubSeq(r, offset + 1, Len(r))
RefRemove(r, start, end) == SubSeq(r, 1, start) \o SubSeq(r, end + 1, Len(r))

\* The last call broke insert_str's contract and returned all the same; the
\* model follows such a buffer no further than its drop.
Misused == call.op = "insert_str" /\ ~InRange(call.before, call.a)

\* What malloc may return to with_capacity: the first block's address (the
\* arena's addresses are interchangeable, so one stands for both) or, for
\* malloc(0), NULL.  A failed malloc of a non-zero size panics inside
\* with_capacity and constructs nothing.
MallocResults(capacity) ==
    {Elsewhere(NULL)} \cup (IF capacity = 0 THEN {NULL} ELSE {})

Init ==
    \E capacity \in 0..MaxCap :
    \E p \in MallocResults(capacity) :
    \E j \in (IF capacity = 0 THEN {0} ELSE Junk) :
        LET M == with_capacity(capacity, p, j)
        IN  /\ buf_start = M.buf_start /\ gap_start = M.gap_start
            /\ gap_end = M.gap_end /\ buf_end = M.buf_end
            /\ base = M.base /\ mem = M.mem /\ alloc = M.alloc
            /\ old_base = M.old_base /\ old_size = M.old_size
            /\ reallocs = M.reallocs /\ frees = M.frees /\ badfree = M.badfree
            /\ uaf = M.uaf /\ oob = M.oob /\ status = M.status
            /\ ref = <<>>
            /\ call = [op |-> "with_capacity", a |-> capacity, b |-> 0,
                       s |-> <<>>, before |-> M, result |-> "live"]
            /\ prior = [op |-> "none", a |-> 0, b |-> 0, s |-> <<>>,
                        before |-> M, result |-> "live"]
            /\ ops = 0

\* What the environment decides during insert_str(offset, s) on M: what
\* realloc does and what the fresh bytes hold, when the call reaches realloc
\* (s is longer than the gap), and whether an access outside the live
\* allocation, if the call makes one, kills the process (only a call that
\* ends with uaf or oob set can have made one).  The set holds every machine
\* the call can end in.
InsertResults(M, offset, s) ==
    LET grows == Len(s) > gap_len(M)
        rs == IF grows THEN ReallocOutcomes ELSE {"inplace"}
        js == IF grows THEN Junk ELSE {0}
        both(survived) ==
            IF \A R \in survived : ~R.uaf /\ ~R.oob THEN survived
            ELSE survived \cup {insert_str(M, offset, s, res, j, TRUE) :
                                   res \in rs, j \in js}
    IN  both({insert_str(M, offset, s, res, j, FALSE) : res \in rs, j \in js})

\* buf.insert_str(offset, s), with an offset up to one past the end.
InsertStr ==
    /\ status = "live" /\ ~Misused /\ ops < MaxOps
    /\ \E offset \in 0..(buf_len(Cur) + 1), s \in Payloads :
       \E M \in InsertResults(Cur, offset, s) :
          /\ Commit(M)
          /\ ref' = IF InRange(Cur, offset) /\ M.status = "live"
                    THEN RefInsert(ref, offset, s) ELSE ref
          /\ call' = [op |-> "insert_str", a |-> offset, b |-> 0,
                      s |-> s, before |-> Cur, result |-> M.status]
          /\ prior' = call
          /\ ops' = ops + 1

\* The machines remove(start..end) on M can end in.  The two insert_str
\* calls inside remove find the whole allocation to be gap and never reach
\* realloc (reallocs is unchanged by Remove), so one outcome is passed for
\* it; a memory fault is an outcome only of a call that ends with uaf or oob
\* set.
RemoveResults(M, start, end) ==
    LET both(survived) ==
            IF ~survived.uaf /\ ~survived.oob THEN {survived}
            ELSE {survived, remove(M, start, end, "inplace", 0, TRUE)}
    IN  both(remove(M, start, end, "inplace", 0, FALSE))

\* buf.remove(start..end), with bounds up to one past the end.  Of the
\* reversed ranges (end < start) the ones with end = start - 1 are drawn:
\* every reversed range fails the first assertion of remove, whatever its
\* bounds are.
Remove ==
    /\ status = "live" /\ ~Misused /\ ops < MaxOps
    /\ \E start \in 0..(buf_len(Cur) + 1) :
       \E end \in (IF start = 0 THEN 0 ELSE start - 1)..(buf_len(Cur) + 1) :
       \E M \in RemoveResults(Cur, start, end) :
          /\ Commit(M)
          /\ ref' = IF ValidRange(Len(ref), start, end) /\ M.status = "live"
                    THEN RefRemove(ref, start, end) ELSE ref
          /\ call' = [op |-> "remove", a |-> start, b |-> end,
                      s |-> <<>>, before |-> Cur, result |-> M.status]
          /\ prior' = call
          /\ ops' = ops + 1

\* The buffer goes out of scope, or a panic unwinds through its owner.
Drop ==
    /\ status \in {"live", "panicked"}
    /\ Commit(drop(Cur))
    /\ UNCHANGED <<ref, call, prior, ops>>

Next == InsertStr \/ Remove \/ Drop

Spec == Init /\ [][Next]_vars

\* ------------------------------------------------- growth of large inserts

\* Where GrowSpec samples the shortfall: small values and the values around
\* 2^24 and 2^25, where an f32 stops holding every integer.
ShortfallBases == {0, 16777216, 33554432}

\* GrowSpec follows the sizes and pointers of one insert_str(0, data) on a
\* fresh buffer for data of any length.  The bytes are not materialised:
\* call.b holds len(data), mem keeps the bytes of the allocation as
\* with_capacity left it, and realloc is taken to extend the block in place.
GrowInit ==
    \E capacity \in 0..MaxCap, base0 \in ShortfallBases, d \in 0..MaxDelta :
        LET M == with_capacity(capacity, Elsewhere(NULL), 0)
        IN  /\ buf_start = M.buf_start /\ gap_start = M.gap_start
            /\ gap_end = M.gap_end /\ buf_end = M.buf_end
            /\ base = M.base /\ mem = M.mem /\ alloc = M.alloc
            /\ old_base = M.old_base /\ old_size = M.old_size
            /\ reallocs = M.reallocs /\ frees = M.frees /\ badfree = M.badfree
            /\ uaf = M.uaf /\ oob = M.oob /\ status = M.status
            /\ ref = <<>>
            /\ call = [op |-> "insert_str", a |-> 0, b |-> capacity + base0 + d,
                       s |-> <<>>, before |-> M, result |-> "called"]
            /\ prior = [op |-> "with_capacity", a |-> capacity, b |-> 0,
                        s |-> <<>>, before |-> M, result |-> "live"]
            /\ ops = 0

\* insert_str, lines 31-33: if s_len > self.gap_len() { self.grow_gap(s_len) }
GrowGap ==
    /\ call.result = "called" /\ call.b > gap_len(Cur)
    /\ LET L == grow_sizes(Cur, call.b)
       IN  /\ gap_start' = buf_start + L.buf_len
           /\ gap_end' = buf_start + L.buf_len + L.new_gap_size
           /\ buf_end' = buf_start + L.buf_len + L.new_gap_size
    /\ reallocs' = reallocs + 1
    /\ call' = [call EXCEPT !.result = "grown"]
    /\ UNCHANGED <<buf_start, base, mem, alloc, old_base, old_size, frees,
                   badfree, uaf, oob, status, ref, prior, ops>>

\* insert_str, lines 35-43: the gap is at offset 0 already; len(data) bytes
\* are copied to gap_start and gap_start advances by len(data).
CopyData ==
    /\ \/ call.result = "grown"
       \/ call.result = "called" /\ call.b <= gap_len(Cur)
    /\ gap_start' = gap_start + call.b
    /\ call' = [call EXCEPT !.result = "live"]
    /\ ops' = ops + 1
    /\ UNCHANGED <<buf_start, gap_end, buf_end, base, mem, alloc, old_base,
                   old_size, reallocs, frees, badfree, uaf, oob, status, ref,
                   prior>>

GrowNext == GrowGap \/ CopyData

GrowSpec == GrowInit /\ [][GrowNext]_vars

\* ------------------------------------------------------------------ claims

\* The last call, when it was an insert_str within its contract.
LastInsertInRange == call.op = "insert_str" /\ InRange(call.before, call.a)

\* The content rendered before the last call.
Before == to_string(call.before)

\* C1: round trip against a reference sequence.  After every step of a run
\* of in-range insert_str and valid remove calls, the rendered content
\* (head ++ tail) equals the same edits made on a plain sequence.
C1_RoundTrip ==
    (status = "live" /\ ~Misused) => to_string(Cur) = ref

C3_GrowthTransparent ==
    (LastInsertInRange /\ Len(call.s) > gap_len(call.before) /\ status = "live")
        => to_string(Cur) = RefInsert(Before, call.a, call.s)

\* C4: insert_str with offset > current length is detected: it never returns
\* normally.  (Stated for the calls that stay inside the allocation; what a
\* call does after an out-of-bounds access is undefined.)
C4_OutOfRangeDetected ==
    (call.op = "insert_str" /\ call.a > Len(Before) /\ ~oob)
        => call.result # "live"

\* The machine as remove's caller sees it: pointers, allocation and bytes.
Visible(M) ==
    <<M.buf_start, M.gap_start, M.gap_end, M.buf_end, M.base, M.mem, M.alloc>>

\* C5: remove with a violated precondition (start >= end, start >= len or
\* end > len) panics before any mutation: the four boundaries, the capacity
\* and the rendered content are as before the call.
C5_RemoveRejects ==
    (call.op = "remove" /\ status # "dropped"
                        /\ ~ValidRange(Len(Before), call.a, call.b))
        => /\ status = "panicked"
           /\ Visible(Cur) = Visible(call.before)
           /\ to_string(Cur) = Before

\* remove(0..len+1) was called on a non-empty buffer with content on both
\* sides of the gap.
C5_Witness ==
    /\ call.op = "remove" /\ status = "panicked"
    /\ call.a = 0 /\ call.b = Len(Before) + 1
    /\ head(call.before) # <<>> /\ tail(call.before) # <<>>

\* The structural invariant on the runs of Spec, whose payloads are short:
\* in every state reached by in-range insert_str and valid remove calls,
\* buf_start <= gap_start <= gap_end <= buf_end, and head, gap and tail
\* together are exactly the current allocation.  (C6_GapNeverNegative states
\* it for payloads of any length.)
C6_Structural ==
    (status \in {"live", "panicked"} /\ ~Misused)
        => /\ buf_start <= gap_start
           /\ gap_start <= gap_end
           /\ gap_end <= buf_end
           /\ buf_start = base
           /\ Len(head(Cur)) + (gap_end - gap_start) + Len(tail(Cur)) = Len(mem)

\* The gap lies strictly inside a block that a growing insert relocated.
C6_Witness ==
    /\ status = "live" /\ ~Misused
    /\ reallocs > 0 /\ base # call.before.base /\ call.before.base # NULL
    /\ buf_start < gap_start /\ gap_start < gap_end /\ gap_end < buf_end

\* C7: allocation ownership.  No operation reads or writes through a pointer
\* into a released block, free is only called on the live block, and after
\* the drop the allocation is released, once.
C7_Ownership ==
    /\ ~uaf
    /\ ~badfree
    /\ frees <= 1
    /\ status = "dropped" => alloc # "live"

\* C8: no partial mutation on allocation failure.  When realloc fails inside
\* insert_str the call panics with the four pointers and every byte as
\* before, the buffer still owns the original allocation, and the drop that
\* follows releases it once.
C8_FailedGrowAborts ==
    (call.op = "insert_str" /\ call.result = "panicked")
        => /\ status \in {"panicked", "dropped"}
           /\ <<buf_start, gap_start, gap_end, buf_end, base, mem>>
                = <<call.before.buf_start, call.before.gap_start,
                    call.before.gap_end, call.before.buf_end,
                    call.before.base, call.before.mem>>
           /\ status = "panicked"
                => alloc = call.before.alloc /\ to_string(Cur) = Before
           /\ status = "dropped"
                => /\ alloc # "live" /\ ~badfree
                   /\ frees = IF call.before.alloc = "live" THEN 1 ELSE 0

\* realloc failed in an insert_str on a buffer with a head and a tail, and
\* the buffer was then dropped.
C8_Witness ==
    /\ call.op = "insert_str" /\ call.result = "panicked"
    /\ status = "dropped" /\ frees = 1
    /\ head(call.before) # <<>> /\ tail(call.before) # <<>>

\* The n bytes of r from logical offset o on.
Slice(r, o, n) == SubSeq(r, o + 1, o + n)

\* The last two calls were insert_str at one in-range offset.
TwoInsertsSameOffset ==
    /\ call.op = "insert_str" /\ prior.op = "insert_str"
    /\ call.a = prior.a
    /\ prior.a <= Len(to_string(prior.before))
    /\ status = "live"

\* C9 as stated: insert_str(o, a) then insert_str(o, b) renders the same
\* content as the single call insert_str(o, a ++ b) on the same buffer.
C9_SameOffsetConcat ==
    TwoInsertsSameOffset
        => \A res \in ReallocOutcomes, j \in Junk, segv \in BOOLEAN :
             LET once == insert_str(prior.before, prior.a, prior.s \o call.s,
                                    res, j, segv)
             IN  once.status = "live" => to_string(once) = to_string(Cur)

\* What two inserts at one offset do on the runs of Spec: insert_str(o, a)
\* then insert_str(o, b) puts the second payload before the first.  The
\* rendered content holds b ++ a at [o, o + len(a) + len(b)), the bytes the
\* single call insert_str(o, b ++ a) puts there.
C9_SecondPayloadFirst ==
    TwoInsertsSameOffset
        => LET ba == call.s \o prior.s
           IN  /\ Slice(to_string(Cur), call.a, Len(ba)) = ba
               /\ \A once \in InsertResults(prior.before, prior.a, ba) :
                    once.status = "live"
                      => Slice(to_string(once), call.a, Len(ba)) = ba

\* Two different non-empty payloads were inserted at one offset strictly
\* inside the content.
C9_Witness ==
    /\ TwoInsertsSameOffset
    /\ prior.s # <<>> /\ call.s # <<>> /\ prior.s # call.s
    /\ prior.a > 0 /\ prior.a < Len(to_string(prior.before))

\* Construction on the runs of Spec, whose payloads are short.
\* with_capacity(c) yields a buffer that is all gap: head and tail empty,
\* gap size c, rendered content empty.  On a capacity-0 buffer the first
\* insert of non-empty data calls realloc and, unless that fails (the panic
\* of C8), renders exactly the data.  (C10_FirstInsertOwned states the
\* first insert for data of any length.)
C10_Construction ==
    /\ (call.op = "with_capacity" /\ status = "live")
         => /\ head(Cur) = <<>> /\ tail(Cur) = <<>>
            /\ gap_end - gap_start = call.a
            /\ buf_end - buf_start = call.a
            /\ Len(mem) = call.a
            /\ to_string(Cur) = <<>>
    /\ (call.op = "insert_str" /\ prior.op = "with_capacity" /\ prior.a = 0
                               /\ call.a = 0 /\ call.s # <<>>)
         => /\ reallocs = 1
            /\ call.result \in {"live", "panicked"}
            /\ status = "live" => to_string(Cur) = call.s

\* The first insert on a capacity-0 buffer whose malloc(0) returned NULL.
C10_Witness ==
    /\ call.op = "insert_str" /\ prior.op = "with_capacity" /\ prior.a = 0
    /\ call.before.buf_start = NULL
    /\ Len(call.s) = 2 /\ status = "live"
    /\ to_string(Cur) = call.s

\* Length of the head of M.
HeadLen(M) == ptr_diff(M.gap_start, M.buf_start)

\* The last call was an in-range insert_str that found the gap large enough,
\* so that its move_gap_to ran on the machine the call found.
LastInsertNoGrowth ==
    /\ LastInsertInRange
    /\ Len(call.s) <= gap_len(call.before)

\* C11: move gap right.  move_gap_to(t) with head_len < t <= head_len +
\* tail_len and d = t - head_len advances gap_start and gap_end by d and
\* carries the first d tail bytes over to the head: head == old_head ++
\* old_tail[0..d], tail == old_tail[d..], for every gap length.
C11_MoveRight ==
    (LastInsertNoGrowth /\ call.a > HeadLen(call.before))
        => LET M == call.before
               d == call.a - HeadLen(M)
               V == move_gap_to(M, call.a, FALSE)
           IN  /\ V.gap_start = M.gap_start + d
               /\ V.gap_end = M.gap_end + d
               /\ head(V) = head(M) \o SubSeq(tail(M), 1, d)
               /\ tail(V) = SubSeq(tail(M), d + 1, Len(tail(M)))
               /\ to_string(V) = to_string(M)

\* The machines the move_gap_to of the last insert_str may have run on: the
\* machine the call found or, when the data was longer than the gap, what
\* grow_gap made of it, with realloc extending the block or relocating it
\* (after a failed realloc move_gap_to is not reached).  The fresh bytes lie
\* in the new gap, behind every byte the head and the tail hold before or
\* after the move, so one value stands for them.
MovedFrom ==
    IF Len(call.s) <= gap_len(call.before) THEN {call.before}
    ELSE {grow_gap(call.before, Len(call.s), res, 0, FALSE) :
            res \in ReallocOutcomes \ {"fail"}}

\* C12: move gap left.  move_gap_to(t) with t < head_len hands the bytes
\* [t, old_gap_start) from the head to the tail, in order: head ==
\* old_head[0..t], tail == old_head[t..] ++ old_tail; the gap length and the
\* capacity are unchanged, also when the moved span is longer than the gap.
\* (Checked in the states the call left; a drop after it changes nothing
\* about what the call did.)
C12_MoveLeft ==
    (LastInsertInRange /\ status # "dropped")
        => \A M \in MovedFrom :
             call.a < HeadLen(M)
               => LET V == move_gap_to(M, call.a, FALSE)
                      h == head(M)
                  IN  /\ V.gap_start = M.buf_start + call.a
                      /\ head(V) = SubSeq(h, 1, call.a)
                      /\ tail(V) = SubSeq(h, call.a + 1, Len(h)) \o tail(M)
                      /\ gap_len(V) = gap_len(M)
                      /\ V.buf_end - V.buf_start = M.buf_end - M.buf_start
                      /\ to_string(V) = to_string(M)

\* The gap was moved left over a span longer than the (non-empty) gap, so
\* that memmove's source and destination overlapped.
C12_Witness ==
    /\ LastInsertNoGrowth /\ status = "live"
    /\ call.a < HeadLen(call.before)
    /\ gap_len(call.before) > 0
    /\ HeadLen(call.before) - call.a > gap_len(call.before)
    /\ gap_start = call.before.buf_start + call.a + Len(call.s)

\* The last call was an insert_str of data longer than the gap: grow_gap ran
\* on the machine the call found, and MovedFrom holds what it may have left.
LastInsertGrew ==
    call.op = "insert_str" /\ Len(call.s) > gap_len(call.before)

chunks_exact(needed) == (needed + CHUNK_SIZE - 1) \div CHUNK_SIZE

\* Bytes the allocation has gained since the last call began.
Added == (buf_end - buf_start) - (call.before.buf_end - call.before.buf_start)

\* C14 (under GrowSpec): insertion never writes outside the gap.  When the
\* data is copied to gap_start the gap is at least len(data) long and ends
\* inside the allocation, and gap_start <= gap_end still holds after
\* gap_start is advanced.
C14_CopyInsideGap ==
    /\ (call.result = "grown" \/ (call.result = "called" /\ call.b <= gap_len(Cur)))
         => /\ gap_len(Cur) >= call.b
            /\ gap_end <= buf_end
    /\ call.result = "live" => (gap_start <= gap_end /\ gap_end <= buf_end)

\* C15 (under GrowSpec): growth amount.  grow_gap(size) with shortfall
\* n = size - gap_len >= 1 extends the allocation by exactly
\* CHUNK_SIZE * ceil(n / CHUNK_SIZE) bytes, the smallest multiple of 32 that
\* is >= n, and the new gap is the old gap plus that amount, >= size.
C15_GrowthAmount ==
    call.result = "grown"
        => LET n == call.b - gap_len(call.before)
           IN  /\ n >= 1
               /\ Added = CHUNK_SIZE * chunks_exact(n)
               /\ Added >= n /\ Added - CHUNK_SIZE < n
               /\ gap_len(Cur) = gap_len(call.before) + Added
               /\ gap_len(Cur) >= call.b

\* C6 (under GrowSpec): structural invariant.  After an insert_str at an
\* in-range offset (0, on a fresh buffer), for data of any length,
\* buf_start <= gap_start <= gap_end <= buf_end: head, tail and gap have
\* lengths >= 0 that add up to the capacity.
C6_GapNeverNegative ==
    call.result \in {"grown", "live"}
        => /\ buf_start <= gap_start
           /\ gap_start <= gap_end
           /\ gap_end <= buf_end
           /\ HeadLen(Cur) >= 0 /\ gap_len(Cur) >= 0 /\ buf_end - gap_end >= 0
           /\ HeadLen(Cur) + gap_len(Cur) + (buf_end - gap_end)
                = buf_end - buf_start

C16_InPlaceFrame ==
    (LastInsertNoGrowth /\ call.a = HeadLen(call.before) /\ status = "live")
        => LET M == call.before
           IN  /\ buf_start = M.buf_start /\ gap_end = M.gap_end
               /\ buf_end = M.buf_end
               /\ base = M.base /\ alloc = M.alloc /\ reallocs = M.reallocs
               /\ gap_start = M.gap_start + Len(call.s)
               /\ mem = Splice(M.mem, M.gap_start - M.base, call.s)
               /\ head(Cur) = head(M) \o call.s
               /\ tail(Cur) = tail(M)
               /\ uaf = M.uaf /\ oob = M.oob

\* Data that fills the gap exactly was inserted at the gap, between a
\* non-empty head and a non-empty tail.
C16_Witness ==
    /\ LastInsertNoGrowth /\ call.a = HeadLen(call.before) /\ status = "live"
    /\ call.s # <<>> /\ Len(call.s) = gap_len(call.before)
    /\ head(call.before) # <<>> /\ tail(call.before) # <<>>
    /\ gap_start = gap_end

\* The last two calls were insert_str(o, a) and insert_str(o + len(a), b),
\* with o in range, and both returned.
TypedForward ==
    /\ call.op = "insert_str" /\ prior.op = "insert_str"
    /\ InRange(prior.before, prior.a)
    /\ call.a = prior.a + Len(prior.s)
    /\ status = "live"

\* C17: typing forward is associative.  insert_str(o, a) followed by
\* insert_str(o + len(a), b) renders the same content as the single call
\* insert_str(o, a ++ b) on the same buffer, and after insert_str(o, a) the
\* head length is o + len(a).
C17_TypingForward ==
    TypedForward
        => /\ HeadLen(call.before) = prior.a + Len(prior.s)
           /\ \A res \in ReallocOutcomes, j \in Junk :
                LET once == insert_str(prior.before, prior.a,
                                       prior.s \o call.s, res, j, FALSE)
                IN  once.status = "live" => to_string(once) = to_string(Cur)

====
